---- MODULE Spec2Model ----
(***************************************************************************)
(* Model of bandicoot's conversation segmenter (_conversations), of the    *)
(* indicators of individual.py built on it, and of the Record, Position    *)
(* and User classes of core.py.                                            *)
(*                                                                         *)
(* A Record is modelled by the fields the segmenter and the indicators     *)
(* read: interaction, direction, correspondent_id, datetime and duration.  *)
(* datetime is an integer number of seconds, a timedelta is the integer    *)
(* difference of two datetimes.  A float produced by np.mean or by a       *)
(* division is an exact fraction in lowest terms.                          *)
(***************************************************************************)
EXTENDS Integers, Sequences, FiniteSets

\* ---------------------------------------------------------------- bounds
MaxLen == 3     \* longest record list given to the segmenter
MaxRecs == 4    \* longest record list given to an indicator

\* ------------------------------------------------------------- constants
None == 0 - 1                 \* Python's None where an integer is expected
Hour == 3600                  \* datetime.timedelta(hours=1) in seconds
FiveMinutes == 300            \* datetime.timedelta(hours=1.0/12) in seconds

Deltas == {FiveMinutes, Hour}
SegGaps == {0, FiveMinutes, Hour - 1, Hour}
IndGaps == {0, 60, 4140}
CallDurations == {0, 1, 2}

\* The (interaction, direction, duration) triples of records: a text has no
\* duration, a call has an integer duration.
TextKinds ==
    { [interaction |-> "text", direction |-> d, duration |-> None] :
        d \in {"in", "out"} }

CallKinds ==
    { [interaction |-> "call", direction |-> d, duration |-> n] :
        d \in {"in", "out"}, n \in CallDurations }

SegKinds == TextKinds \cup CallKinds

IndKinds ==
    TextKinds \cup { [interaction |-> "call", direction |-> "in", duration |-> 2] }

VARIABLES
    records,      \* the record list handed to the operation
    delta,        \* the timeout handed to the segmenter
    pc,           \* "input", or the operation that has run
    convs,        \* the conversations _conversations emitted
    excl,         \* conversations and discarded calls, call-excludes policy
    by_contact,   \* an indicator's conversations, one list per correspondent
    rates,        \* response_rate: _response_rate of every correspondent
    rrates,       \* response_rate: the values given to summary_stats
    delays,       \* response_delay: the values given to summary_stats
    result,       \* what any other operation returned
    user          \* the User object the records belong to

vars == <<records, delta, pc, convs, excl, by_contact, rates, rrates, delays,
          result, user>>

\* ------------------------------------------------------------- helpers
RECURSIVE SumTo(_, _)
SumTo(f, n) == IF n < 2 THEN 0 ELSE f[n] + SumTo(f, n - 1)

Record(kind, who, when) ==
    [interaction |-> kind.interaction, direction |-> kind.direction,
     correspondent_id |-> who, datetime |-> when, duration |-> kind.duration]

\* A time-ordered record list of length n: the first record is at second 0
\* and the i-th one follows its predecessor by the gap gs[i].
RecordList(n, ks, ws, gs) ==
    [i \in 1..n |-> Record(ks[i], ws[i], SumTo(gs, i))]

\* The inputs: every time-ordered list of at most max records of the given
\* kinds, correspondents and gaps.
IsInput(rs, max, kinds, whos, gaps) ==
    \E n \in 0..max :
        \E ks \in [1..n -> kinds], ws \in [1..n -> whos], gs \in [2..n -> gaps] :
            rs = RecordList(n, ks, ws, gs)

\* ------------------------------------------------------- _conversations
WithinDeltaInclusive(g, last_time, d) ==
    last_time = None \/ g.datetime - last_time <= d

WithinDelta(g, last_time, d) == last_time = None \/ g.datetime - last_time < d

ClosingCallFromOne(g) == g.interaction = "call" /\ g.duration >= 1

ClosingCall(g) == g.interaction = "call" /\ g.duration > 1

EmitAlways(out, results) == Append(out, results)

Emit(out, results) == IF Len(results) # 0 THEN Append(out, results) ELSE out

RestartKeeping(results, g) == Append(results, g)

Restart(results, g) == <<g>>

RECURSIVE ConversationsLoop(_, _, _, _, _, _)
ConversationsLoop(group, d, i, last_time, results, out) ==
    IF i > Len(group)
    THEN Emit(out, results)
    ELSE LET g == group[i] IN
         IF WithinDelta(g, last_time, d)
         THEN IF ClosingCall(g)
              THEN ConversationsLoop(group, d, i + 1, g.datetime, <<>>,
                                     Append(out, Append(results, g)))
              ELSE ConversationsLoop(group, d, i + 1, g.datetime,
                                     Append(results, g), out)
         ELSE ConversationsLoop(group, d, i + 1, g.datetime,
                                Restart(results, g), Emit(out, results))

ConversationsIgnoringDelta(group, d) ==
    ConversationsLoop(group, Hour, 1, None, <<>>, <<>>)

Conversations(group, d) == ConversationsLoop(group, d, 1, None, <<>>, <<>>)

\* ------------------------------------------- the call-excludes policy
\* The segmenter of the specification's section 4.1 that keeps calls out of
\* the conversations: a call closes the open conversation and is discarded,
\* a gap of at least the timeout closes it and the record (unless a call)
\* seeds the next one.
ExclLoopStepKeepingCall(g, d, last_time, results, out, discarded) ==
    IF last_time = None \/ g.datetime - last_time < d
    THEN [results |-> Append(results, g), out |-> out, discarded |-> discarded]
    ELSE [results |-> <<g>>,
          out |-> IF Len(results) # 0 THEN Append(out, results) ELSE out,
          discarded |-> discarded]

ExclLoopStep(g, d, last_time, results, out, discarded) ==
    LET closed == IF Len(results) # 0 THEN Append(out, results) ELSE out IN
    IF g.interaction = "call"
    THEN [results |-> <<>>, out |-> closed, discarded |-> Append(discarded, g)]
    ELSE IF last_time = None \/ g.datetime - last_time < d
         THEN [results |-> Append(results, g), out |-> out, discarded |-> discarded]
         ELSE [results |-> <<g>>, out |-> closed, discarded |-> discarded]

RECURSIVE ExclLoop(_, _, _, _, _, _, _)
ExclLoop(group, d, i, last_time, results, out, discarded) ==
    IF i > Len(group)
    THEN [out |-> IF Len(results) # 0 THEN Append(out, results) ELSE out,
          discarded |-> discarded]
    ELSE LET s == ExclLoopStep(group[i], d, last_time, results, out, discarded) IN
         ExclLoop(group, d, i + 1, group[i].datetime, s.results, s.out, s.discarded)

ConversationsExcluding(group, d) ==
    ExclLoop(group, d, 1, None, <<>>, <<>>, <<>>)

\* ------------------------------------------------------------- floats
RECURSIVE GCD(_, _)
GCD(a, b) == IF b = 0 THEN a ELSE GCD(b, a % b)

\* the float n / d, d > 0
Frac(n, d) == [kind |-> "num", num |-> n \div GCD(n, d), den |-> d \div GCD(n, d)]

NaN == [kind |-> "nan", num |-> 0, den |-> 0]

NoValue == [kind |-> "none", num |-> 0, den |-> 0]

RECURSIVE SeqSum(_)
SeqSum(s) == IF s = <<>> THEN 0 ELSE Head(s) + SeqSum(Tail(s))

\* np.mean of a list of numbers: nan for the empty list
Mean(s) == IF s = <<>> THEN NaN ELSE Frac(SeqSum(s), Len(s))

Positive(x) == x.kind = "num" /\ x.num > 0

\* ----------------------------------------- grouping by correspondent
\* The slot of a one-letter key in a dictionary of at most five keys: the
\* hash of a one-character str is (1000003 * (ord(c) << 7)) ^ ord(c) ^ 1, a
\* dict of up to five keys has eight slots, the slot is hash & 7
DictSlot(k) ==
    CASE k = "A" -> 0
      [] k = "B" -> 3
      [] k = "C" -> 2
      [] k = "D" -> 5

\* The keys of the dictionary `interactions` as Python 2 iterates them: by
\* slot, not by insertion
Keys(rs) ==
    LET ks == { rs[i].correspondent_id : i \in 1..Len(rs) }
    IN CHOOSE s \in [1..Cardinality(ks) -> ks] :
            \A i, j \in 1..Cardinality(ks) : i < j => DictSlot(s[i]) < DictSlot(s[j])

\* interactions[k]
Group(rs, k) == LET Mine(r) == r.correspondent_id = k IN SelectSeq(rs, Mine)

\* interactions.values()
Interactions(rs) ==
    LET keys == Keys(rs) IN [p \in 1..Len(keys) |-> Group(rs, keys[p])]

DefaultDelta == Hour

\* -------------------------------------------------------- response_rate
ReceivedNever(conv) == Len(conv) # 0 /\ conv[1].direction = "out"

Received(conv) == Len(conv) # 0 /\ conv[1].direction = "in"

Responded(conv) == \E i \in 1..Len(conv) : conv[i].direction = "out"

RateOfNoneAsZero(received, responded) == Frac(responded, IF received = 0 THEN 1 ELSE received)

RateOf(received, responded) ==
    IF received = 0 THEN NoValue ELSE Frac(responded, received)

ResponseRateOf(conversations) ==
    LET received == Cardinality({c \in 1..Len(conversations) :
                                    Received(conversations[c])})
        responded == Cardinality({c \in 1..Len(conversations) :
                                    Received(conversations[c])
                                    /\ Responded(conversations[c])})
    IN RateOf(received, responded)

NotNone(v) == v.kind # "none"

\* ------------------------------------------------------- response_delay
\* pairwise(conv) of helper.tools: the pairs of neighbours (s0,s1), (s1,s2), ...
Pairwise(conv) == [j \in 1..(Len(conv) - 1) |-> <<conv[j], conv[j + 1]>>]

IsResponse(pair) == pair[2].direction = "out" /\ pair[1].direction = "in"

Elapsed(pair) == pair[2].datetime - pair[1].datetime

\* the elapsed seconds of the incoming->outgoing pairs of one conversation
ConvDelays(conv) ==
    LET answered == SelectSeq(Pairwise(conv), IsResponse)
    IN [j \in 1..Len(answered) |-> Elapsed(answered[j])]

RECURSIVE AllDelays(_)
AllDelays(conversations) ==
    IF conversations = <<>> THEN <<>>
    ELSE ConvDelays(Head(conversations)) \o AllDelays(Tail(conversations))

MeanResponseDelay(conversations) == Mean(AllDelays(conversations))

\* ------------------------------------------------------------ behaviour
Day == 86400                  \* seconds of a day

\* datetime.time(h, m) as the second of the day
TimeOfDay(h, m) == h * 3600 + m * 60

\* User.__init__ of src/core.py; the start and end times of a record list
\* do not exist (here None) until its setter has stored a record. A
\* dictionary is the sequence of its [key, value] items.
NewUser ==
    [cellular_records |-> <<>>, physical_records |-> <<>>, screen_records |-> <<>>,
     stop_records |-> <<>>, stops |-> <<>>,
     start_time |-> None, end_time |-> None,
     start_time_cellular |-> None, end_time_cellular |-> None,
     start_time_physical |-> None, end_time_physical |-> None,
     start_time_screen |-> None, end_time_screen |-> None,
     start_time_stop |-> None, end_time_stop |-> None,
     night_start |-> TimeOfDay(22, 0), night_end |-> TimeOfDay(7, 0),
     has_text |-> FALSE, has_call |-> FALSE, has_stops |-> FALSE]

\* User.__init__ of bandicoot_dev/core.py
NewUserDev ==
    [records |-> <<>>, antennas |-> <<>>,
     start_time |-> None, end_time |-> None,
     night_start |-> TimeOfDay(19, 0), night_end |-> TimeOfDay(7, 0),
     has_text |-> FALSE, has_call |-> FALSE, has_antennas |-> FALSE]

\* the user is an object of bandicoot_dev/core.py
IsDevUser(u) == "antennas" \in DOMAIN u

\* nothing has run yet
Quiet ==
    /\ pc = "input"
    /\ convs = <<>>
    /\ excl = [out |-> <<>>, discarded |-> <<>>]
    /\ by_contact = <<>>
    /\ rates = <<>>
    /\ rrates = <<>>
    /\ delays = <<>>
    /\ result = <<>>

Idle == Quiet /\ user = NewUser

Init ==
    /\ IsInput(records, MaxLen, SegKinds, {"A"}, SegGaps)
    /\ delta \in Deltas
    /\ Idle

Segment ==
    /\ pc = "input"
    /\ convs' = Conversations(records, delta)
    /\ pc' = "_conversations"
    /\ UNCHANGED <<user, records, delta, excl, by_contact, rates, rrates, delays, result>>

SegmentExcluding ==
    /\ pc = "input"
    /\ excl' = ConversationsExcluding(records, delta)
    /\ pc' = "excluding"
    /\ UNCHANGED <<user, records, delta, convs, by_contact, rates, rrates, delays, result>>

Next == Segment \/ SegmentExcluding

Spec == Init /\ [][Next]_vars

\* The indicators: a partition of records of several correspondents.
InitInd ==
    /\ IsInput(records, MaxRecs, IndKinds, {"A", "B"}, IndGaps)
    /\ delta = DefaultDelta
    /\ Idle

ResponseRate ==
    /\ pc = "input"
    /\ LET interactions == Interactions(records)
           conversations == [p \in 1..Len(interactions) |->
                               Conversations(interactions[p], DefaultDelta)]
           each == [p \in 1..Len(conversations) |-> ResponseRateOf(conversations[p])]
       IN /\ by_contact' = conversations
          /\ rates' = each
          /\ rrates' = SelectSeq(each, NotNone)
    /\ pc' = "response_rate"
    /\ UNCHANGED <<user, records, delta, convs, excl, delays, result>>

ResponseDelay ==
    /\ pc = "input"
    /\ LET interactions == Interactions(records)
           conversations == [p \in 1..Len(interactions) |->
                               Conversations(interactions[p], DefaultDelta)]
           each == [p \in 1..Len(conversations) |-> MeanResponseDelay(conversations[p])]
       IN /\ by_contact' = conversations
          /\ delays' = SelectSeq(each, Positive)
    /\ pc' = "response_delay"
    /\ UNCHANGED <<user, records, delta, convs, excl, rates, rrates, result>>

NextInd == ResponseRate \/ ResponseDelay

SpecInd == InitInd /\ [][NextInd]_vars

\* ------------------------------------------------------------ properties
RECURSIVE Flatten(_)
Flatten(cs) == IF cs = <<>> THEN <<>> ELSE Head(cs) \o Flatten(Tail(cs))

\* The number of the conversation that holds the i-th record of the
\* concatenated conversations, 0 when there is no such record.
RECURSIVE ConvOfFrom(_, _, _)
ConvOfFrom(cs, i, c) ==
    IF c > Len(cs) THEN 0
    ELSE IF i <= Len(cs[c]) THEN c
    ELSE ConvOfFrom(cs, i - Len(cs[c]), c + 1)

ConvOf(cs, i) == ConvOfFrom(cs, i, 1)

\* The number of conversations before the one that holds the i-th record
RECURSIVE LenBefore(_, _)
LenBefore(cs, c) == IF c <= 1 THEN 0 ELSE Len(cs[c - 1]) + LenBefore(cs, c - 1)

Segmented == pc = "_conversations"

AnsweredCall(r) == r.interaction = "call" /\ r.duration > 1

Gap(rs, i) == rs[i + 1].datetime - rs[i].datetime

\* C1: in every emitted conversation a call with duration > 1 is the last
\* record of its conversation: no record is placed after it.
C1_AnsweredCallIsLast ==
    Segmented =>
        \A c \in 1..Len(convs) : \A j \in 1..Len(convs[c]) :
            AnsweredCall(convs[c][j]) => j = Len(convs[c])

\* C2: in every emitted conversation the gap between two consecutive
\* records is strictly below the timeout.
C2_GapsBelowTimeout ==
    Segmented =>
        \A c \in 1..Len(convs) : \A j \in 1..(Len(convs[c]) - 1) :
            Gap(convs[c], j) < delta

C2_Witness ==
    /\ Segmented
    /\ delta = Hour
    /\ Len(convs) = 2
    /\ Len(convs[1]) = 2
    /\ Gap(convs[1], 1) = Hour - 1
    /\ convs[2][1].datetime - convs[1][2].datetime = Hour

\* C3: no emitted conversation is empty, and an empty input yields no
\* conversation.
C3_NoEmptyConversation ==
    Segmented =>
        /\ \A c \in 1..Len(convs) : Len(convs[c]) # 0
        /\ records = <<>> => convs = <<>>

\* a closing call followed by a timeout gap, and a closing call at the end
C3_Witness ==
    /\ Segmented
    /\ Len(records) = 3
    /\ AnsweredCall(records[1])
    /\ Gap(records, 1) >= delta
    /\ AnsweredCall(records[3])
    /\ Gap(records, 2) < delta
    /\ Len(convs) = 2

\* C4: a record whose gap from the previous record equals the timeout is
\* the first record of a new conversation; a record whose gap is strictly
\* below the timeout joins the conversation of the previous record when
\* that record left it open.
C4_StrictGapComparison ==
    Segmented =>
        \A i \in 1..(Len(records) - 1) :
            /\ Gap(records, i) = delta =>
                    /\ ConvOf(convs, i + 1) = ConvOf(convs, i) + 1
                    /\ convs[ConvOf(convs, i + 1)][1] = records[i + 1]
            /\ (Gap(records, i) < delta /\ ~AnsweredCall(records[i])) =>
                    /\ ConvOf(convs, i + 1) = ConvOf(convs, i)
                    /\ ConvOf(convs, i) # 0

C4_Witness ==
    /\ Segmented
    /\ Len(records) = 3
    /\ Gap(records, 1) = delta - 1
    /\ Gap(records, 2) = delta
    /\ ~AnsweredCall(records[1])
    /\ Len(convs) = 2
    /\ Len(convs[1]) = 2

\* C5: a call with duration <= 1 is appended to the open conversation and
\* does not close it: the next record within the timeout is in the same
\* conversation, right after the call.
C5_MissedCallKeepsOpen ==
    Segmented =>
        \A i \in 1..(Len(records) - 1) :
            (/\ records[i].interaction = "call"
             /\ records[i].duration <= 1
             /\ Gap(records, i) < delta) =>
                LET c == ConvOf(convs, i)
                    j == i - LenBefore(convs, c)
                IN /\ c # 0
                   /\ c = ConvOf(convs, i + 1)
                   /\ convs[c][j] = records[i]
                   /\ convs[c][j + 1] = records[i + 1]

C5_Witness ==
    /\ Segmented
    /\ Len(records) = 3
    /\ records[1].interaction = "text"
    /\ records[2].interaction = "call"
    /\ records[2].duration = 1
    /\ records[3].interaction = "text"
    /\ Gap(records, 1) < delta
    /\ Gap(records, 2) < delta
    /\ Len(convs) = 1

\* The number of times x occurs in the sequence s
Count(s, x) == Cardinality({i \in 1..Len(s) : s[i] = x})

IsPermutation(s, t) ==
    /\ Len(s) = Len(t)
    /\ \A i \in 1..Len(s) : Count(s, s[i]) = Count(t, s[i])

\* C6: under the call-excludes policy no emitted conversation holds a call,
\* every call is discarded, and the conversations in emission order together
\* with the discarded calls are a permutation of the input.
C6_CallExcludesPartition ==
    pc = "excluding" =>
        /\ \A c \in 1..Len(excl.out) : \A j \in 1..Len(excl.out[c]) :
                excl.out[c][j].interaction # "call"
        /\ \A k \in 1..Len(excl.discarded) :
                excl.discarded[k].interaction = "call"
        /\ IsPermutation(Flatten(excl.out) \o excl.discarded, records)

C6_Witness ==
    /\ pc = "excluding"
    /\ Len(records) = 3
    /\ records[1].interaction = "text"
    /\ records[2].interaction = "call"
    /\ records[3].interaction = "text"
    /\ Gap(records, 1) < delta
    /\ Gap(records, 2) < delta
    /\ Len(excl.out) = 2
    /\ Len(excl.discarded) = 1

\* ------------------------------------------- properties of the indicators
IncomingText(r) == r.interaction = "text" /\ r.direction = "in"

HasOutgoing(conv) == \E i \in 1..Len(conv) : conv[i].direction = "out"

StartsWithIncomingText(conv) == Len(conv) # 0 /\ IncomingText(conv[1])

\* the rate of the claim: conversations that start with an incoming text
TextRate(conversations) ==
    LET started == {c \in 1..Len(conversations) :
                        StartsWithIncomingText(conversations[c])}
        answered == {c \in started : HasOutgoing(conversations[c])}
    IN IF started = {} THEN NoValue
       ELSE Frac(Cardinality(answered), Cardinality(started))

\* C7: the rate of every correspondent counts only the conversations whose
\* first record is an incoming text; one that starts with an incoming call
\* is not counted.
C7_OnlyIncomingTextStarts ==
    pc = "response_rate" =>
        \A p \in 1..Len(rates) : rates[p] = TextRate(by_contact[p])

\* the example [in at t0, out at t0 + 1 min, in at t0 + 70 min]
IsExample(group) ==
    /\ Len(group) = 3
    /\ \A i \in 1..3 : group[i].interaction = "text"
    /\ group[1].direction = "in"
    /\ group[2].direction = "out"
    /\ group[3].direction = "in"
    /\ group[2].datetime = group[1].datetime + 60
    /\ group[3].datetime = group[1].datetime + 70 * 60

NoIncomingStart(conversations) ==
    \A c \in 1..Len(conversations) : conversations[c][1].direction # "in"

\* C8: the example gives 2 conversations and the rate 1/2; a correspondent
\* without a conversation that starts with an incoming record gives no value
\* to the reduction.
C8_ExampleAndNoData ==
    pc = "response_rate" =>
        /\ \A p \in 1..Len(rates) :
                IsExample(Interactions(records)[p]) =>
                    /\ Len(by_contact[p]) = 2
                    /\ rates[p] = [kind |-> "num", num |-> 1, den |-> 2]
        /\ \A i \in 1..Len(rrates) : rrates[i].kind = "num"
        /\ Len(rrates) =
               Cardinality({p \in 1..Len(by_contact) : ~NoIncomingStart(by_contact[p])})

C8_Witness ==
    /\ pc = "response_rate"
    /\ Len(records) = 4
    /\ IsExample(Group(records, "A"))
    /\ Len(Group(records, "B")) = 1
    /\ Group(records, "B")[1].direction = "out"
    /\ Len(rates) = 2
    /\ rrates = <<[kind |-> "num", num |-> 1, den |-> 2]>>

\* the positive elapsed seconds of the incoming->outgoing neighbours of the
\* conversations of every correspondent, one value per pair
RECURSIVE PairValues(_)
PairValues(conversations) ==
    IF conversations = <<>> THEN <<>>
    ELSE LET conv == Head(conversations)
             IsAnswer(j) == conv[j].direction = "in" /\ conv[j + 1].direction = "out"
             At(j) == conv[j + 1].datetime - conv[j].datetime
             js == {j \in 1..(Len(conv) - 1) : IsAnswer(j) /\ At(j) > 0}
             RECURSIVE Upto(_)
             Upto(j) == IF j = 0 THEN <<>>
                        ELSE IF j \in js THEN Append(Upto(j - 1), Frac(At(j), 1))
                        ELSE Upto(j - 1)
         IN Upto(Len(conv) - 1) \o PairValues(Tail(conversations))

RECURSIVE Concat(_)
Concat(ss) == IF ss = <<>> THEN <<>> ELSE Head(ss) \o Concat(Tail(ss))

\* C9: the values reduced by response_delay are the elapsed seconds of every
\* incoming->outgoing pair of neighbours in a conversation, one per pair,
\* without the non-positive ones.
C9_OneValuePerPair ==
    pc = "response_delay" =>
        delays = Concat([p \in 1..Len(by_contact) |-> PairValues(by_contact[p])])

\* C10: every value reduced by response_delay is strictly below the
\* conversation timeout of one hour, 3600 seconds.
C10_DelayBelowHour ==
    pc = "response_delay" =>
        \A i \in 1..Len(delays) :
            /\ delays[i].kind = "num"
            /\ delays[i].num < 3600 * delays[i].den

C10_Witness ==
    /\ pc = "response_delay"
    /\ Len(records) = 4
    /\ \A i \in 1..4 : records[i].correspondent_id = "A"
    /\ records[1].direction = "in"
    /\ records[2].direction = "out"
    /\ records[3].direction = "in"
    /\ records[4].direction = "out"
    /\ Gap(records, 1) = 60
    /\ Gap(records, 3) = 4140
    /\ delays = <<[kind |-> "num", num |-> 60, den |-> 1]>>

\* ======================= percent_initiated / percent_concluded_conversations
PctGaps == {60, 4140}

\* np.mean of a list of couples: the mean of all the numbers in the couples
MeanOfCouples(mapped) ==
    IF mapped = <<>> THEN NaN
    ELSE Frac(SeqSum([j \in 1..Len(mapped) |-> mapped[j][1] + mapped[j][2]]),
              2 * Len(mapped))

InitiatedCouple(conv) == <<IF conv[1].direction = "out" THEN 1 ELSE 0, 1>>

ConcludedCouple(conv) == <<IF conv[Len(conv)].direction = "out" THEN 1 ELSE 0, 1>>

\* _percent_initiated of percent_initiated_conversations
PercentInitiatedOf(conversations) ==
    MeanOfCouples([c \in 1..Len(conversations) |-> InitiatedCouple(conversations[c])])

\* _percent_initiated of percent_concluded_conversations
PercentConcludedOf(conversations) ==
    MeanOfCouples([c \in 1..Len(conversations) |-> ConcludedCouple(conversations[c])])

InitPct ==
    /\ IsInput(records, MaxRecs, IndKinds, {"A", "B"}, PctGaps)
    /\ delta = DefaultDelta
    /\ Idle

PercentInitiated ==
    /\ pc = "input"
    /\ LET interactions == Interactions(records)
           conversations == [p \in 1..Len(interactions) |->
                               Conversations(interactions[p], DefaultDelta)]
       IN /\ by_contact' = conversations
          /\ result' = [p \in 1..Len(conversations) |->
                            PercentInitiatedOf(conversations[p])]
    /\ pc' = "percent_initiated_conversations"
    /\ UNCHANGED <<user, records, delta, convs, excl, rates, rrates, delays>>

PercentConcluded ==
    /\ pc = "input"
    /\ LET interactions == Interactions(records)
           conversations == [p \in 1..Len(interactions) |->
                               Conversations(interactions[p], DefaultDelta)]
       IN /\ by_contact' = conversations
          /\ result' = [p \in 1..Len(conversations) |->
                            PercentConcludedOf(conversations[p])]
    /\ pc' = "percent_concluded_conversations"
    /\ UNCHANGED <<user, records, delta, convs, excl, rates, rrates, delays>>

NextPct == PercentInitiated \/ PercentConcluded

SpecPct == InitPct /\ [][NextPct]_vars

\* the conversations of a list whose record at the given end is outgoing
OutgoingAt(conversations, first) ==
    Cardinality({c \in 1..Len(conversations) :
        LET conv == conversations[c] IN
        conv[IF first THEN 1 ELSE Len(conv)].direction = "out"})

\* C11: the value of every correspondent is k / n, n the number of its
\* conversations and k the number of them whose first (percent_initiated)
\* or last (percent_concluded) record is outgoing; it is 0 when k = 0.
C11_FractionOfConversations ==
    /\ pc = "percent_initiated_conversations" =>
            \A p \in 1..Len(result) :
                result[p] = Frac(OutgoingAt(by_contact[p], TRUE), Len(by_contact[p]))
    /\ pc = "percent_concluded_conversations" =>
            \A p \in 1..Len(result) :
                result[p] = Frac(OutgoingAt(by_contact[p], FALSE), Len(by_contact[p]))

\* ======================================== the Pareto indicators
\* A number is a couple <<n, d>>, d > 0, standing for n / d.
QAdd(a, b) == <<a[1] * b[2] + b[1] * a[2], a[2] * b[2]>>

QSub(a, b) == <<a[1] * b[2] - b[1] * a[2], a[2] * b[2]>>

QLess(a, b) == a[1] * b[2] < b[1] * a[2]

Raised == [kind |-> "raise", num |-> 0, den |-> 0]

\* A dictionary is the sequence of its [key, value] items in insertion order.
HasKey(dct, k) == \E i \in 1..Len(dct) : dct[i].key = k

\* dct[k] += v of a defaultdict(int) or a Counter
AddTo(dct, k, v) ==
    IF HasKey(dct, k)
    THEN [i \in 1..Len(dct) |->
            IF dct[i].key = k THEN [key |-> k, value |-> QAdd(dct[i].value, v)]
            ELSE dct[i]]
    ELSE Append(dct, [key |-> k, value |-> v])

RECURSIVE AddAll(_, _)
AddAll(dct, items) ==
    IF items = <<>> THEN dct
    ELSE AddAll(AddTo(dct, Head(items).key, Head(items).value), Tail(items))

RECURSIVE QSum(_)
QSum(dct) == IF dct = <<>> THEN <<0, 1>> ELSE QAdd(Head(dct).value, QSum(Tail(dct)))

Percentage == <<4, 5>>      \* percentage=0.8

\* int(math.ceil(total * percentage))
Target(total, percentage) ==
    LET n == total[1] * percentage[1]
        d == total[2] * percentage[2]
    IN <<(n + d - 1) \div d, 1>>

\* one more item in an ascending list, after the items of the same value
RECURSIVE InsertByValue(_, _)
InsertByValue(ascending, item) ==
    IF ascending = <<>> THEN <<item>>
    ELSE IF QLess(item.value, ascending[Len(ascending)].value)
         THEN Append(InsertByValue(SubSeq(ascending, 1, Len(ascending) - 1), item),
                     ascending[Len(ascending)])
         ELSE Append(ascending, item)

RECURSIVE InsertAll(_)
InsertAll(dct) ==
    IF dct = <<>> THEN <<>>
    ELSE InsertByValue(InsertAll(SubSeq(dct, 1, Len(dct) - 1)), dct[Len(dct)])

SortedDescending(dct) ==
    LET ascending == InsertAll(dct)
    IN [i \in 1..Len(dct) |-> ascending[Len(dct) + 1 - i]]

\* sorted(user_count.keys(), key=lambda x: user_count[x])
SortedByValue(dct) == InsertAll(dct)

\* The loop with a target that is a positive rounding residue: it pops until
\* a user of positive mass has been popped.
RECURSIVE PopResidue(_)
PopResidue(user_sort) ==
    IF Len(user_sort) = 0 THEN 0
    ELSE IF user_sort[Len(user_sort)].value[1] > 0 THEN Len(user_sort) - 1
         ELSE PopResidue(SubSeq(user_sort, 1, Len(user_sort) - 1))

\* The loop `while target > 0 and len(user_sort) > 0`: the lengths user_sort
\* can have when the loop ends.  The text and call path subtracts floats:
\* when the exact target reaches 0 with users left, the float target is 0 or
\* a rounding residue on either side of 0.
RECURSIVE PopLoop(_, _, _)
PopLoop(user_sort, target, floats) ==
    IF Len(user_sort) = 0 THEN {0}
    ELSE IF QLess(<<0, 1>>, target)
         THEN PopLoop(SubSeq(user_sort, 1, Len(user_sort) - 1),
                      QSub(target, user_sort[Len(user_sort)].value), floats)
         ELSE IF floats /\ target[1] = 0
              THEN {Len(user_sort), PopResidue(user_sort)}
              ELSE {Len(user_sort)}

\* what the function holds when it returns
Returned(value, removed, user_count) ==
    [value |-> value, removed |-> removed, user_count |-> user_count]

\* lines 165-172 and 194-201
ParetoOf(recs, user_count, floats) ==
    LET target == Target(QSum(user_count), Percentage)
        user_sort == SortedByValue(user_count)
    IN { Returned(Frac(Len(user_count) - left, Len(recs)),
                  Len(user_count) - left, user_count) :
            left \in PopLoop(user_sort, target, floats) }

IsText(r) == r.interaction = "text"

IsNotText(r) == r.interaction # "text"

RECURSIVE DurationSum(_)
DurationSum(rs) == IF rs = <<>> THEN 0 ELSE Head(rs).duration + DurationSum(Tail(rs))

percent_ei_percent_interactions(recs) ==
    IF recs = <<>> THEN {Returned(NoValue, 0, <<>>)}
    ELSE IF {recs[i].interaction : i \in 1..Len(recs)} = {"text", "call"}
    THEN LET texts == SelectSeq(recs, IsText)
             calls == SelectSeq(recs, IsNotText)
             sum_interactions_text == Len(texts)
             sum_interactions_call == DurationSum(calls)
         IN IF sum_interactions_call = 0 THEN {Returned(Raised, 0, <<>>)}
            ELSE ParetoOf(recs,
                    AddAll(AddAll(<<>>,
                        [i \in 1..Len(texts) |->
                            [key |-> texts[i].correspondent_id,
                             value |-> <<1, sum_interactions_text>>]]),
                        [i \in 1..Len(calls) |->
                            [key |-> calls[i].correspondent_id,
                             value |-> <<calls[i].duration, sum_interactions_call>>]]),
                    TRUE)
    ELSE ParetoOf(recs,
            AddAll(<<>>, [i \in 1..Len(recs) |->
                            [key |-> recs[i].position, value |-> <<1, 1>>]]),
            FALSE)

\* every record has the slots correspondent_id and position, so both keys
\* of a record receive its duration
DurationItems(recs) ==
    [j \in 1..(2 * Len(recs)) |->
        LET r == recs[(j + 1) \div 2] IN
        [key |-> IF j % 2 = 1 THEN r.correspondent_id ELSE r.position,
         value |-> <<r.duration, 1>>]]

percent_ei_percent_durations(recs) ==
    IF recs = <<>> THEN {Returned(NoValue, 0, <<>>)}
    ELSE ParetoOf(recs, AddAll(<<>>, DurationItems(recs)), FALSE)

\* ---------------------------------------------------------------- inputs
MaxCount == 5

Contacts == <<"A", "B", "C", "D">>

PlaceOf == [A |-> "pA", B |-> "pB", C |-> "pC", D |-> "pD"]

NoId == "None"

EventRecord(interaction, who, when, duration, position) ==
    [interaction |-> interaction, direction |-> "in", correspondent_id |-> who,
     datetime |-> when, duration |-> duration, position |-> position]

\* cnt[c] records of each contact c, one after the other, one per second
RECURSIVE Spread(_, _, _)
Spread(cnt, c, when) ==
    IF c > Len(Contacts) THEN <<>>
    ELSE [i \in 1..cnt[Contacts[c]] |-> <<Contacts[c], when + i>>]
         \o Spread(cnt, c + 1, when + cnt[Contacts[c]])

PhysicalRecords(cnt, shared) ==
    LET s == Spread(cnt, 1, 0) IN
    [i \in 1..Len(s) |->
        EventRecord("physical", s[i][1], s[i][2], None,
                    IF shared THEN "p" ELSE PlaceOf[s[i][1]])]

StopDurations == {1, 2}

StopRecords(cnt, dur) ==
    LET s == Spread(cnt, 1, 0) IN
    [i \in 1..Len(s) |->
        EventRecord("stop", NoId, s[i][2], dur[s[i][1]], PlaceOf[s[i][1]])]

MixedContacts == {"A", "B", "C"}

MixedDurations == {None, 0, 2, 3}

\* the texts of each contact, then its call, if it has one
MixedRecords(ntext, call) ==
    LET s == Spread([c \in {"A", "B", "C", "D"} |->
                        IF c \in MixedContacts
                        THEN ntext[c] + (IF call[c] = None THEN 0 ELSE 1)
                        ELSE 0], 1, 0)
        First(i) == i = 1 \/ s[i - 1][1] # s[i][1]
        IsCall(i) == call[s[i][1]] # None
                     /\ (i = Len(s) \/ s[i + 1][1] # s[i][1])
    IN [i \in 1..Len(s) |->
        IF IsCall(i)
        THEN EventRecord("call", s[i][1], s[i][2], call[s[i][1]], "p")
        ELSE EventRecord("text", s[i][1], s[i][2], None, "p")]

InitPareto ==
    /\ \/ \E cnt \in [{"A", "B", "C", "D"} -> 0..MaxCount], shared \in BOOLEAN :
            records = PhysicalRecords(cnt, shared)
       \/ \E cnt \in [{"A", "B", "C", "D"} -> 0..2],
             dur \in [{"A", "B", "C", "D"} -> StopDurations] :
            records = StopRecords(cnt, dur)
       \/ \E ntext \in [MixedContacts -> 0..2], call \in [MixedContacts -> MixedDurations] :
            records = MixedRecords(ntext, call)
    /\ delta = DefaultDelta
    /\ Idle

\* @grouping(interaction=[['text', 'call'], 'physical'])
PercentEiInteractions ==
    /\ pc = "input"
    /\ \A i \in 1..Len(records) : records[i].interaction # "stop"
    /\ result' \in percent_ei_percent_interactions(records)
    /\ pc' = "percent_ei_percent_interactions"
    /\ UNCHANGED <<user, records, delta, convs, excl, by_contact, rates, rrates, delays>>

\* @grouping(interaction=['stop'])
PercentEiDurations ==
    /\ pc = "input"
    /\ \A i \in 1..Len(records) : records[i].interaction = "stop"
    /\ result' \in percent_ei_percent_durations(records)
    /\ pc' = "percent_ei_percent_durations"
    /\ UNCHANGED <<user, records, delta, convs, excl, by_contact, rates, rrates, delays>>

NextPareto == PercentEiInteractions \/ PercentEiDurations

SpecPareto == InitPareto /\ [][NextPareto]_vars

ParetoDone == pc \in {"percent_ei_percent_interactions", "percent_ei_percent_durations"}

\* the record list of the example: A five times, B three times, C and D once
ExampleCounts == [A |-> 5, B |-> 3, C |-> 1, D |-> 1]

\* C12: a Pareto indicator returns the number of top contacts needed to reach
\* the target mass divided by the number of distinct contacts, and for the
\* counts {A:5, B:3, C:1, D:1} with target 80% it returns 0.5.
C12_FractionOfContacts ==
    ParetoDone /\ result.value.kind = "num" =>
        /\ result.value = Frac(result.removed, Len(result.user_count))
        /\ records = PhysicalRecords(ExampleCounts, FALSE) => result.value = Frac(1, 2)

IntegerMasses == \A i \in 1..Len(result.user_count) : result.user_count[i].value[2] = 1

Masses == [i \in 1..Len(result.user_count) |-> result.user_count[i].value[1]]

RECURSIVE MassSum(_, _)
MassSum(masses, S) ==
    IF S = {} THEN 0
    ELSE LET i == CHOOSE j \in S : TRUE IN masses[i] + MassSum(masses, S \ {i})

\* ceil(total * 0.8): the least integer t with 5 t >= 4 total
CeilTarget(total) == CHOOSE t \in 0..total : 5 * t >= 4 * total /\ 5 * (t - 1) < 4 * total

\* the least k such that some k contacts, hence the k largest, hold at least
\* the target
MinimalK ==
    LET masses == Masses
        n == Len(masses)
        target == CeilTarget(MassSum(masses, 1..n))
        sums == {<<Cardinality(S), MassSum(masses, S)>> : S \in SUBSET (1..n)}
        Reaches(k) == \E c \in sums : c[1] = k /\ c[2] >= target
    IN CHOOSE k \in 0..n : Reaches(k) /\ \A j \in 0..(k - 1) : ~Reaches(j)

\* C13: with integer masses the greedy loop removes the minimal number k of
\* contacts whose k largest masses sum to at least ceil(total * percentage);
\* the indicator returns for every non-empty input and never removes more
\* contacts than exist.
C13_GreedyIsMinimal ==
    /\ pc = "input" /\ records # <<>> =>
            \A r \in IF records[1].interaction = "stop"
                      THEN percent_ei_percent_durations(records)
                      ELSE percent_ei_percent_interactions(records) :
                r.value # NoValue /\ r.removed <= Len(r.user_count)
    /\ ParetoDone /\ result.value.kind = "num" /\ IntegerMasses =>
            /\ result.removed = MinimalK
            /\ result.removed <= Len(result.user_count)

C13_Witness ==
    /\ ParetoDone
    /\ result.value.kind = "num"
    /\ IntegerMasses
    /\ Len(result.user_count) = 4
    /\ result.removed = 2
    /\ \E i, j \in 1..4 : Masses[i] > Masses[j] /\ Masses[j] > 0

\* ================================================ counting and ratio indicators
MaxEvents == 4

EventGaps == {0, 30}

ScreenKinds == { [interaction |-> "screen", direction |-> "in", duration |-> 60] }

\* a * 1.0 / b
Quotient(a, b) == IF b = 0 THEN Raised ELSE Frac(a, b)

IsOut(r) == r.direction = "out"

balance_of_interactions(recs) ==
    LET counter_out == Len(SelectSeq(recs, IsOut))
        counter == Len(recs)
    IN Quotient(counter_out, counter)

IsCall(r) == r.interaction = "call"

ratio_call_text(recs, direction) ==
    LET Wanted(r) == direction = "None" \/ r.direction = direction
        wanted == SelectSeq(recs, Wanted)
    IN Quotient(Len(SelectSeq(wanted, IsCall)), Len(SelectSeq(wanted, IsText)))

\* del pending[k]
Without(dct, k) ==
    LET Other(item) == item.key # k IN SelectSeq(dct, Other)

Lookup(dct, k) == CHOOSE i \in 1..Len(dct) : dct[i].key = k

\* pending[k]
Pending(dct, k) == dct[Lookup(dct, k)].value

\* the body of the loop for one record r
FirstSeenStep(r, st) ==
    LET screen == r.interaction = "screen"
        session_id == IF screen THEN st.session_id + 1 ELSE st.session_id
        endtime == IF screen THEN r.datetime + r.duration ELSE st.endtime
        first_session_id == IF r.datetime < endtime THEN session_id ELSE session_id + 1
        pending ==
            IF r.interaction = "text" /\ r.direction = "in"
               /\ ~HasKey(st.pending, r.correspondent_id)
            THEN Append(st.pending, [key |-> r.correspondent_id, value |-> first_session_id])
            ELSE st.pending
        answers == r.interaction = "text" /\ r.direction = "out"
                   /\ HasKey(pending, r.correspondent_id)
    IN [session_id |-> session_id,
        endtime |-> endtime,
        pending |-> IF answers THEN Without(pending, r.correspondent_id) ELSE pending,
        responses |->
            IF answers /\ Pending(pending, r.correspondent_id) = session_id
            THEN Append(st.responses, 1)
            ELSE IF answers /\ Pending(pending, r.correspondent_id) < session_id
                 THEN Append(st.responses, 0)
                 ELSE st.responses]

RECURSIVE FirstSeenLoop(_, _)
FirstSeenLoop(recs, st) ==
    IF recs = <<>> THEN st
    ELSE FirstSeenLoop(Tail(recs), FirstSeenStep(Head(recs), st))

FirstSeenStart ==
    [session_id |-> 0 - 1, endtime |-> 0, pending |-> <<>>, responses |-> <<>>]

\* np.mean(responses)
first_seen_response_rate(recs) ==
    LET responses == FirstSeenLoop(recs, FirstSeenStart).responses
    IN [value |-> IF responses = <<>> THEN NaN ELSE Frac(SeqSum(responses), Len(responses)),
        responses |-> responses]

InitRatio ==
    /\ IsInput(records, MaxEvents, TextKinds \cup ScreenKinds
                    \cup {[interaction |-> "call", direction |-> "in", duration |-> 2]},
               {"A", "B"}, EventGaps)
    /\ delta = DefaultDelta
    /\ Idle

OnlyOf(interactions) == \A i \in 1..Len(records) : records[i].interaction \in interactions

\* @grouping(interaction=["text"])
BalanceOfInteractions ==
    /\ pc = "input"
    /\ OnlyOf({"text"})
    /\ result' = balance_of_interactions(records)
    /\ pc' = "balance_of_interactions"
    /\ UNCHANGED <<user, records, delta, convs, excl, by_contact, rates, rrates, delays>>

\* @grouping(interaction=[["call", "text"]])
RatioCallText ==
    /\ pc = "input"
    /\ OnlyOf({"call", "text"})
    /\ \E direction \in {"None", "in", "out"} :
            result' = ratio_call_text(records, direction)
    /\ pc' = "ratio_call_text"
    /\ UNCHANGED <<user, records, delta, convs, excl, by_contact, rates, rrates, delays>>

\* @grouping(interaction=[['text', 'screen']])
FirstSeenResponseRate ==
    /\ pc = "input"
    /\ OnlyOf({"text", "screen"})
    /\ result' = first_seen_response_rate(records)
    /\ pc' = "first_seen_response_rate"
    /\ UNCHANGED <<user, records, delta, convs, excl, by_contact, rates, rrates, delays>>

NextRatio == BalanceOfInteractions \/ RatioCallText \/ FirstSeenResponseRate

SpecRatio == InitRatio /\ [][NextRatio]_vars

RatioValue == IF pc = "first_seen_response_rate" THEN result.value ELSE result

\* C14: balance_of_interactions, ratio_call_text and first_seen_response_rate
\* never raise and never return NaN; with a zero denominator they return None.
C14_NoDataOnZeroDenominator ==
    pc \in {"balance_of_interactions", "ratio_call_text", "first_seen_response_rate"} =>
        RatioValue.kind \in {"num", "none"}

\* ============================================================ percent_nocturnal
MaxNight == 3

\* the times of day of the records
NightTimes ==
    {TimeOfDay(0, 0), TimeOfDay(6, 59), TimeOfDay(7, 0), TimeOfDay(7, 1),
     TimeOfDay(12, 0), TimeOfDay(22, 0), TimeOfDay(23, 30)}

\* the (night_start, night_end) settings of the user
NightSettings ==
    {<<TimeOfDay(22, 0), TimeOfDay(7, 0)>>, <<TimeOfDay(19, 0), TimeOfDay(7, 0)>>,
     <<TimeOfDay(7, 0), TimeOfDay(22, 0)>>, <<TimeOfDay(7, 0), TimeOfDay(7, 0)>>}

\* d.time()
TimeOf(datetime) == datetime % Day

NightFilterInside(u, datetime) ==
    u.night_end > TimeOf(datetime) /\ TimeOf(datetime) > u.night_start

night_filter(u, datetime) ==
    IF u.night_start < u.night_end
    THEN u.night_end > TimeOf(datetime) /\ TimeOf(datetime) > u.night_start
    ELSE ~(u.night_end < TimeOf(datetime) /\ TimeOf(datetime) < u.night_start)

percent_nocturnal(recs, u) ==
    IF Len(recs) = 0 THEN NoValue
    ELSE LET Nocturnal(r) == night_filter(u, r.datetime)
         IN Frac(Len(SelectSeq(recs, Nocturnal)), Len(recs))

\* the records at the given times, in time order
RECURSIVE RecordsAt(_)
RecordsAt(times) ==
    IF times = {} THEN <<>>
    ELSE LET first == CHOOSE t \in times : \A o \in times : t <= o
         IN <<Record([interaction |-> "screen", direction |-> "in", duration |-> 60],
                     NoId, first)>> \o RecordsAt(times \ {first})

InitNight ==
    /\ \E times \in SUBSET NightTimes :
            /\ Cardinality(times) <= MaxNight
            /\ records = RecordsAt(times)
    /\ \E setting \in NightSettings :
            user = [NewUser EXCEPT !.night_start = setting[1], !.night_end = setting[2]]
    /\ delta = DefaultDelta
    /\ Quiet

\* @grouping(user_kwd=True, interaction=['physical', 'screen', 'stop'])
PercentNocturnal ==
    /\ pc = "input"
    /\ result' = percent_nocturnal(records, user)
    /\ pc' = "percent_nocturnal"
    /\ UNCHANGED <<user, records, delta, convs, excl, by_contact, rates, rrates, delays>>

NextNight == PercentNocturnal

SpecNight == InitNight /\ [][NextNight]_vars

AtTime(h, m) == {i \in 1..Len(records) : TimeOf(records[i].datetime) = TimeOfDay(h, m)}

DefaultNight == user.night_start = TimeOfDay(22, 0) /\ user.night_end = TimeOfDay(7, 0)

\* C15: with night_start = 22:00 and night_end = 07:00 a record at 23:30 or at
\* 06:59 is nocturnal and a record at 12:00 or at 07:01 is not;
\* percent_nocturnal returns the number of nocturnal records divided by the
\* number of records, and None for an empty partition.
C15_NightPoints ==
    pc = "percent_nocturnal" =>
        /\ records = <<>> => result = NoValue
        /\ records # <<>> =>
                result = Frac(Cardinality({i \in 1..Len(records) :
                                  night_filter(user, records[i].datetime)}), Len(records))
        /\ DefaultNight /\ records # <<>>
            /\ (\A i \in 1..Len(records) :
                    i \in AtTime(23, 30) \cup AtTime(6, 59) \cup AtTime(12, 0) \cup AtTime(7, 1))
            => result = Frac(Cardinality(AtTime(23, 30) \cup AtTime(6, 59)), Len(records))

C15_Witness ==
    /\ pc = "percent_nocturnal"
    /\ DefaultNight
    /\ AtTime(23, 30) # {} /\ AtTime(6, 59) # {} /\ AtTime(7, 1) # {}
    /\ result = Frac(2, 3)

TimesOfRecords == {TimeOf(records[i].datetime) : i \in 1..Len(records)}

\* C16 as stated: when night_start > night_end a record is nocturnal iff its
\* time of day is outside the closed interval [night_end, night_start]; when
\* night_start < night_end, iff it is strictly inside (night_start, night_end).
C16_OutsideClosedInterval ==
    pc = "percent_nocturnal" /\ records # <<>> =>
        /\ user.night_start > user.night_end =>
                result = Frac(Cardinality({t \in TimesOfRecords :
                            t < user.night_end \/ t > user.night_start}), Len(records))
        /\ user.night_start < user.night_end =>
                result = Frac(Cardinality({t \in TimesOfRecords :
                            user.night_start < t /\ t < user.night_end}), Len(records))

\* C16, amended: when night_start > night_end a record is nocturnal iff its
\* time of day is outside the open interval (night_end, night_start), so a
\* record at exactly night_end or night_start is nocturnal; when
\* night_start < night_end, iff it is strictly inside (night_start, night_end).
C16_OutsideOpenInterval ==
    pc = "percent_nocturnal" /\ records # <<>> =>
        /\ user.night_start > user.night_end =>
                result = Frac(Cardinality({t \in TimesOfRecords :
                            t <= user.night_end \/ t >= user.night_start}), Len(records))
        /\ user.night_start < user.night_end =>
                result = Frac(Cardinality({t \in TimesOfRecords :
                            user.night_start < t /\ t < user.night_end}), Len(records))

C16_Witness ==
    /\ pc = "percent_nocturnal"
    /\ user.night_start > user.night_end
    /\ TimesOfRecords = {user.night_end, user.night_start, TimeOfDay(12, 0)}
    /\ result = Frac(2, 3)

\* ====================================================== the overlap indicators
MaxSpan == 4

SpanGaps == {2, 3, 6, Hour}

\* the records of the overlap indicators: a meeting with A or B, or a screen
\* session of 0 or 3 seconds
SpanEntries ==
    { [kind |-> [interaction |-> "physical", direction |-> "in", duration |-> None],
       who |-> w] : w \in {"A", "B"} }
    \cup { [kind |-> [interaction |-> "screen", direction |-> "in", duration |-> n],
            who |-> NoId] : n \in {0, 3} }

\* the float n / d for integers of either sign, d # 0
SignedFrac(n, d) == IF d < 0 THEN Frac(0 - n, 0 - d) ELSE Frac(n, d)

\* (to_ts(conv[0].datetime), to_ts(conv[-1].datetime)) of every conversation
Timespans(grouped, d) ==
    LET conversations == Conversations(grouped, d)
    IN [c \in 1..Len(conversations) |->
            <<conversations[c][1].datetime,
              conversations[c][Len(conversations[c])].datetime>>]

\* the spans of all the groups, one after the other
RECURSIVE AllSpans(_, _)
AllSpans(interactions, d) ==
    IF interactions = <<>> THEN <<>>
    ELSE Timespans(Head(interactions), d) \o AllSpans(Tail(interactions), d)

\* len([ts for a, b in spans for ts in xrange(a, b)])
StampCount(spans) == SeqSum([j \in 1..Len(spans) |-> spans[j][2] - spans[j][1]])

\* set(ts for a, b in spans for ts in xrange(a, b))
StampSet(spans) == UNION {spans[j][1]..(spans[j][2] - 1) : j \in 1..Len(spans)}

Max(S) == CHOOSE x \in S : \A y \in S : y <= x

Min(S) == CHOOSE x \in S : \A y \in S : x <= y

IsPhysical(r) == r.interaction = "physical"

IsScreen(r) == r.interaction = "screen"

ratio_social_screen_alone_screen(recs) ==
    LET interactions == Interactions(SelectSeq(recs, IsPhysical))
        screen == SelectSeq(recs, IsScreen)
        spans_screen == [j \in 1..Len(screen) |->
                            <<screen[j].datetime, screen[j].datetime + screen[j].duration>>]
        spans_physical == AllSpans(interactions, FiveMinutes)
        set_screen == StampSet(spans_screen)
        set_physical == StampSet(spans_physical)
        len_physical == StampCount(spans_physical)
        both == Cardinality(set_screen \cap set_physical)
        alone == Cardinality(set_screen \ set_physical)
    IN IF len_physical = 0 THEN NoValue
       ELSE IF set_screen = {} THEN Raised                 \* max() of an empty list
       ELSE LET denominator == Max(set_screen) - Min(set_screen) - len_physical
            IN IF denominator = 0 \/ alone = 0 THEN Raised \* division by zero
               ELSE SignedFrac(both * denominator, len_physical * alone)

overlap_conversations_per_contacts(recs) ==
    LET interactions == Interactions(recs)
        spans == AllSpans(interactions, DefaultDelta)
    IN IF StampCount(spans) = 0 THEN NoValue
       ELSE Frac(StampCount(spans) - Cardinality(StampSet(spans)),
                 StampCount(spans) * Len(interactions))

InitSpan ==
    /\ \E n \in 0..MaxSpan :
         \E es \in [1..n -> SpanEntries], gs \in [2..n -> SpanGaps] :
            records = [i \in 1..n |-> Record(es[i].kind, es[i].who, SumTo(gs, i))]
    /\ delta = DefaultDelta
    /\ Idle

\* @grouping(interaction=[['physical', 'screen']])
RatioSocialScreenAloneScreen ==
    /\ pc = "input"
    /\ result' = ratio_social_screen_alone_screen(records)
    /\ pc' = "ratio_social_screen_alone_screen"
    /\ UNCHANGED <<user, records, delta, convs, excl, by_contact, rates, rrates, delays>>

\* @grouping(interaction=['text', 'physical'])
OverlapConversationsPerContacts ==
    /\ pc = "input"
    /\ OnlyOf({"physical"})
    /\ result' = overlap_conversations_per_contacts(records)
    /\ pc' = "overlap_conversations_per_contacts"
    /\ UNCHANGED <<user, records, delta, convs, excl, by_contact, rates, rrates, delays>>

NextSpan == RatioSocialScreenAloneScreen \/ OverlapConversationsPerContacts

SpecSpan == InitSpan /\ [][NextSpan]_vars

\* C17: ratio_social_screen_alone_screen never raises; it returns None when
\* the physical conversations or the screen sessions have zero total
\* duration or when the screen-alone denominator is zero.
C17_NoDataNeverRaises ==
    pc = "ratio_social_screen_alone_screen" => result.kind \in {"num", "none"}

\* the spans of the conversations, as the indicator sees them
SeenSpans == AllSpans(Interactions(records), DefaultDelta)

\* C18: overlap_conversations_per_contacts returns the overlapping
\* conversation time divided by the total covered conversation time (2/11 for
\* conversations of 5 and 8 units with different correspondents that overlap
\* for 2), and None when no conversation has a positive span.
C18_OverlapOverCovered ==
    pc = "overlap_conversations_per_contacts" =>
        IF StampCount(SeenSpans) = 0 THEN result = NoValue
        ELSE LET covered == StampSet(SeenSpans)
                 overlapping == {t \in covered :
                    Cardinality({j \in 1..Len(SeenSpans) :
                        SeenSpans[j][1] <= t /\ t < SeenSpans[j][2]}) > 1}
             IN result = Frac(Cardinality(overlapping), Cardinality(covered))

\* ========================================================= Record and Position
\* "" stands for an attribute that is None
Stops == {"", "s1", "s2"}

Locations == {"", "l1", "l2"}

Position(stop, location) == [stop |-> stop, location |-> location]

\* Position.__repr__
PositionRepr(p) ==
    IF p.stop # "" /\ p.location # ""
    THEN [form |-> "Position(stop=%s, location=%s)", stop |-> p.stop, location |-> p.location]
    ELSE IF p.stop # ""
    THEN [form |-> "Position(stop=%s)", stop |-> p.stop, location |-> ""]
    ELSE IF p.location # ""
    THEN [form |-> "Position(location=(%s, %s))", stop |-> "", location |-> p.location]
    ELSE [form |-> "Position()", stop |-> "", location |-> ""]

\* Position.__eq__
PositionEq(p, o) ==
    IF p.stop # "" /\ o.stop # "" THEN p.stop = o.stop
    ELSE IF p.location # "" /\ o.location # "" THEN p.location = o.location
    ELSE p.location = "" /\ p.stop = "" /\ o.location = "" /\ o.stop = ""

\* Record.__repr__: the repr of every slot
RecordRepr(r) == [r EXCEPT !.position = PositionRepr(r.position)]

\* Record.__eq__: every slot compares equal
RecordEq(r, o) ==
    /\ r.interaction = o.interaction
    /\ r.direction = o.direction
    /\ r.correspondent_id = o.correspondent_id
    /\ r.datetime = o.datetime
    /\ r.duration = o.duration
    /\ PositionEq(r.position, o.position)

\* Record.__hash__ is hash(repr): two hashes are equal when the reprs are
RecordHash(r) == RecordRepr(r)

\* sorted(set(records), key=lambda r: r.datetime) of a list of two records,
\* as the set of the lists it can return: the second record joins the set
\* unless it has the hash of the first and equals it; two members of equal
\* datetime come out in the iteration order of the set, which is the order
\* of their hashes and can be either
SortedSet(recs) ==
    IF RecordHash(recs[1]) = RecordHash(recs[2]) /\ RecordEq(recs[1], recs[2])
    THEN {<<recs[1]>>}
    ELSE IF recs[2].datetime < recs[1].datetime THEN {<<recs[2], recs[1]>>}
    ELSE IF recs[1].datetime < recs[2].datetime THEN {recs}
    ELSE {recs, <<recs[2], recs[1]>>}

InitRecord ==
    /\ \E s1, s2 \in Stops, l1, l2 \in Locations, t1, t2 \in {0, 60}, w \in {"A", "B"} :
            records = <<EventRecord("text", "A", t1, None, Position(s1, l1)),
                        EventRecord("text", w, t2, None, Position(s2, l2))>>
    /\ delta = DefaultDelta
    /\ Idle

\* the two records are compared, hashed and put in a set
CompareRecords ==
    /\ pc = "input"
    /\ \E sorted_min_records \in SortedSet(records) :
        result' = [equal |-> RecordEq(records[1], records[2]),
                   hashes |-> <<RecordHash(records[1]), RecordHash(records[2])>>,
                   sorted_min_records |-> sorted_min_records]
    /\ pc' = "compared"
    /\ UNCHANGED <<user, records, delta, convs, excl, by_contact, rates, rrates, delays>>

NextRecord == CompareRecords

SpecRecord == InitRecord /\ [][NextRecord]_vars

\* C19: two Records that compare equal, Records with equal Positions
\* included, have equal hashes, so that they are one element of a set.
C19_EqualRecordsEqualHashes ==
    pc = "compared" /\ result.equal =>
        /\ result.hashes[1] = result.hashes[2]
        /\ Len(result.sorted_min_records) = 1

\* ================================================== the record lists of a User
\* The records a caller can assign to User.records; the field stop of a
\* position is the attribute antenna of bandicoot_dev/core.py
RecordPool ==
    {EventRecord("text", "A", 0, None, Position("s1", "")),
     EventRecord("call", "A", 60, 2, Position("", "")),
     EventRecord("text", "B", 60, None, Position("", "l2"))}

\* The records a caller can assign to one of the other lists
EventPool(interaction) ==
    IF interaction = "stop"
    THEN {EventRecord("stop", NoId, 0, 2, Position("s1", "")),
          EventRecord("stop", NoId, 60, 2, Position("", "l2"))}
    ELSE {EventRecord(interaction, NoId, when, 2, Position("", "")) : when \in {0, 60}}

\* The dictionaries a caller can assign to User.antennas and to User.stops
PlaceDicts ==
    {<<>>,
     <<[key |-> "s1", value |-> "l1"]>>,
     <<[key |-> "s1", value |-> "l2"], [key |-> "s2", value |-> "l1"]>>}

\* any list, in any order, of distinct records of the pool
IsListOf(input, pool) ==
    \E chosen \in SUBSET pool :
        /\ input \in [1..Cardinality(chosen) -> chosen]
        /\ \A i, j \in 1..Len(input) : i # j => input[i] # input[j]

\* a stable sort by datetime
RECURSIVE StableSort(_)
StableSort(input) ==
    IF input = <<>> THEN <<>>
    ELSE LET front == StableSort(SubSeq(input, 1, Len(input) - 1))
             r == input[Len(input)]
             Before(o) == o.datetime <= r.datetime
             After(o) == o.datetime > r.datetime
         IN SelectSeq(front, Before) \o <<r>> \o SelectSeq(front, After)

Unsorted(input) == input

\* sorted(input, key=lambda r: r.datetime)
sorted(input) == StableSort(input)

\* the inputs last assigned, by attribute; a stored list holds the objects
\* of the input, so what a setter writes to a stored record shows in the input
NoInputs ==
    [records |-> <<>>, cellular_records |-> <<>>, physical_records |-> <<>>,
     screen_records |-> <<>>, stop_records |-> <<>>]

\* a User of bandicoot_dev/core.py or a User of src/core.py
InitUser ==
    /\ records = NoInputs
    /\ delta = DefaultDelta
    /\ Quiet
    /\ user \in {NewUserDev, NewUser}

\* the records setter of bandicoot_dev/core.py on the user u; recompute_home
\* writes User.home only
RecordsSetter(u, input) ==
    LET stored == sorted(input) IN
    [u EXCEPT
        !.records = stored,
        !.start_time = IF Len(stored) > 0 THEN stored[1].datetime ELSE @,
        !.end_time = IF Len(stored) > 0 THEN stored[Len(stored)].datetime ELSE @,
        !.has_text = \E i \in 1..Len(stored) : stored[i].interaction = "text",
        !.has_call = \E i \in 1..Len(stored) : stored[i].interaction = "call",
        !.has_antennas = \E i \in 1..Len(stored) : stored[i].position.stop # ""]

\* r.position.location = places[r.position.antenna] where the antenna (the
\* stop) is a key of places, None where it is not
Located(r, places) ==
    [r EXCEPT !.position.location =
        IF HasKey(places, r.position.stop)
        THEN places[Lookup(places, r.position.stop)].value
        ELSE ""]

LocatedAll(recs, places) == [i \in 1..Len(recs) |-> Located(recs[i], places)]

\* the antennas setter of bandicoot_dev/core.py
AntennasSetter(u, input_) ==
    [u EXCEPT
        !.antennas = input_,
        !.has_antennas = Len(input_) > 0,
        !.records = LocatedAll(@, input_)]

\* the stops setter of src/core.py
StopsSetter(u, input_) ==
    [u EXCEPT
        !.stops = input_,
        !.has_stops = Len(input_) > 0,
        !.stop_records = LocatedAll(@, input_)]

\* User.records = input
SetRecords ==
    /\ IsDevUser(user)
    /\ \E input \in UNION {[1..n -> RecordPool] : n \in 0..Cardinality(RecordPool)} :
        /\ IsListOf(input, RecordPool)
        /\ records' = [records EXCEPT !.records = input]
        /\ user' = RecordsSetter(user, input)
    /\ pc' = "records"
    /\ result' = <<>>
    /\ UNCHANGED <<delta, convs, excl, by_contact, rates, rrates, delays>>

\* User.antennas = input_
SetAntennas ==
    /\ IsDevUser(user)
    /\ \E input_ \in PlaceDicts :
        /\ user' = AntennasSetter(user, input_)
        /\ records' = [records EXCEPT !.records = LocatedAll(@, input_)]
    /\ pc' = "antennas"
    /\ result' = <<>>
    /\ UNCHANGED <<delta, convs, excl, by_contact, rates, rrates, delays>>

\* User.cellular_records = input: the list is stored and the flags are reset,
\* then the loop over self._records, an attribute this User does not have,
\* raises AttributeError
SetCellularRecords ==
    /\ ~IsDevUser(user)
    /\ \E input \in UNION {[1..n -> EventPool("text")] :
                            n \in 0..Cardinality(EventPool("text"))} :
        /\ IsListOf(input, EventPool("text"))
        /\ records' = [records EXCEPT !.cellular_records = input]
        /\ LET stored == sorted(input) IN
           user' = [user EXCEPT
                !.cellular_records = stored,
                !.start_time_cellular = IF Len(stored) > 0 THEN stored[1].datetime ELSE @,
                !.end_time_cellular =
                    IF Len(stored) > 0 THEN stored[Len(stored)].datetime ELSE @,
                !.has_call = FALSE,
                !.has_text = FALSE]
    /\ pc' = "cellular_records"
    /\ result' = Raised
    /\ UNCHANGED <<delta, convs, excl, by_contact, rates, rrates, delays>>

\* User.physical_records = input
SetPhysicalRecords ==
    /\ ~IsDevUser(user)
    /\ \E input \in UNION {[1..n -> EventPool("physical")] :
                            n \in 0..Cardinality(EventPool("physical"))} :
        /\ IsListOf(input, EventPool("physical"))
        /\ records' = [records EXCEPT !.physical_records = input]
        /\ LET stored == sorted(input) IN
           user' = [user EXCEPT
                !.physical_records = stored,
                !.start_time_physical = IF Len(stored) > 0 THEN stored[1].datetime ELSE @,
                !.end_time_physical =
                    IF Len(stored) > 0 THEN stored[Len(stored)].datetime ELSE @]
    /\ pc' = "physical_records"
    /\ result' = <<>>
    /\ UNCHANGED <<delta, convs, excl, by_contact, rates, rrates, delays>>

\* User.screen_records = input
SetScreenRecords ==
    /\ ~IsDevUser(user)
    /\ \E input \in UNION {[1..n -> EventPool("screen")] :
                            n \in 0..Cardinality(EventPool("screen"))} :
        /\ IsListOf(input, EventPool("screen"))
        /\ records' = [records EXCEPT !.screen_records = input]
        /\ LET stored == sorted(input) IN
           user' = [user EXCEPT
                !.screen_records = stored,
                !.start_time_screen = IF Len(stored) > 0 THEN stored[1].datetime ELSE @,
                !.end_time_screen =
                    IF Len(stored) > 0 THEN stored[Len(stored)].datetime ELSE @]
    /\ pc' = "screen_records"
    /\ result' = <<>>
    /\ UNCHANGED <<delta, convs, excl, by_contact, rates, rrates, delays>>

\* User.stop_records = input
SetStopRecords ==
    /\ ~IsDevUser(user)
    /\ \E input \in UNION {[1..n -> EventPool("stop")] :
                            n \in 0..Cardinality(EventPool("stop"))} :
        /\ IsListOf(input, EventPool("stop"))
        /\ records' = [records EXCEPT !.stop_records = input]
        /\ LET stored == sorted(input) IN
           user' = [user EXCEPT
                !.stop_records = stored,
                !.start_time_stop = IF Len(stored) > 0 THEN stored[1].datetime ELSE @,
                !.end_time_stop =
                    IF Len(stored) > 0 THEN stored[Len(stored)].datetime ELSE @]
    /\ pc' = "stop_records"
    /\ result' = <<>>
    /\ UNCHANGED <<delta, convs, excl, by_contact, rates, rrates, delays>>

\* User.stops = input_
SetStops ==
    /\ ~IsDevUser(user)
    /\ \E input_ \in PlaceDicts :
        /\ user' = StopsSetter(user, input_)
        /\ records' = [records EXCEPT !.stop_records = LocatedAll(@, input_)]
    /\ pc' = "stops"
    /\ result' = <<>>
    /\ UNCHANGED <<delta, convs, excl, by_contact, rates, rrates, delays>>

NextUser ==
    \/ SetRecords \/ SetAntennas
    \/ SetCellularRecords \/ SetPhysicalRecords \/ SetScreenRecords
    \/ SetStopRecords \/ SetStops

SpecUser == InitUser /\ [][NextUser]_vars

\* stored holds the records of input, each as often, in non-decreasing
\* datetime order
IsSortedPermutation(stored, input) ==
    /\ Len(stored) = Len(input)
    /\ \A r \in {input[i] : i \in 1..Len(input)} \cup {stored[i] : i \in 1..Len(stored)} :
            Cardinality({i \in 1..Len(stored) : stored[i] = r})
                = Cardinality({i \in 1..Len(input) : input[i] = r})
    /\ \A i \in 1..(Len(stored) - 1) : stored[i].datetime <= stored[i + 1].datetime

\* C20: after any sequence of assignments to the record lists of a User
\* (records, physical_records, screen_records, stop_records), every stored
\* list is a permutation of the input last assigned to it, in non-decreasing
\* datetime order.
C20_StoredSorted ==
    IF IsDevUser(user)
    THEN IsSortedPermutation(user.records, records.records)
    ELSE /\ IsSortedPermutation(user.physical_records, records.physical_records)
         /\ IsSortedPermutation(user.screen_records, records.screen_records)
         /\ IsSortedPermutation(user.stop_records, records.stop_records)

C20_Witness ==
    /\ pc = "physical_records"
    /\ Len(records.physical_records) = 2
    /\ user.physical_records # records.physical_records
    /\ Len(records.screen_records) = 2
    /\ user.screen_records # records.screen_records
    /\ records.stop_records = <<>> /\ user.end_time_stop # None

\* C21: after any sequence of assignments to User.records, start_time and
\* end_time are the datetimes of the first and the last stored record,
\* start_time is None exactly when no record is stored, and has_call and
\* has_text tell whether the stored records include a call and a text.
C21_TimesOfStoredRecords ==
    IsDevUser(user) =>
        LET stored == user.records IN
        /\ user.start_time = None <=> stored = <<>>
        /\ stored # <<>> =>
                /\ user.start_time = stored[1].datetime
                /\ user.end_time = stored[Len(stored)].datetime
        /\ user.has_call <=> \E i \in 1..Len(stored) : stored[i].interaction = "call"
        /\ user.has_text <=> \E i \in 1..Len(stored) : stored[i].interaction = "text"

\* ===================================================================== flatten
MaxDepth == 2

\* A dictionary is a function of its keys.  A value is a number or a
\* dictionary:
Leaf(n) == [dict |-> FALSE, value |-> n, items |-> <<>>]

Dict(d) == [dict |-> TRUE, value |-> 0, items |-> d]

Leaves == {Leaf(1), Leaf(10), Leaf(42)}

\* the dictionaries with keys among keys and values among values
DictsOver(keys, values) == UNION {[ks -> values] : ks \in SUBSET keys}

\* the values that hold at most depth dictionaries, one in the other
RECURSIVE ValuesAt(_)
ValuesAt(depth) ==
    IF depth = 0 THEN Leaves
    ELSE Leaves \cup {Dict(d) : d \in DictsOver({"a", "b"}, ValuesAt(depth - 1))}

DefaultSeparator == "__"

\* the (new_key, v) couples appended to items
RECURSIVE FlattenItems(_, _, _)
FlattenItems(d, parent_key, separator) ==
    UNION { LET new_key == IF parent_key # "" THEN parent_key \o separator \o k ELSE k
                v == d[k]
            IN IF v.dict THEN FlattenItems(v.items, new_key, separator)
               ELSE {<<new_key, v.value>>} : k \in DOMAIN d }

\* OrderedDict(items); no two items of the dictionaries modelled here have
\* the same key
flatten(d, parent_key, separator) ==
    LET items == FlattenItems(d, parent_key, separator)
    IN [k \in {it[1] : it \in items} |-> (CHOOSE it \in items : it[1] = k)[2]]

InitFlatten ==
    /\ \E d \in DictsOver({"alpha", "beta"}, ValuesAt(MaxDepth - 1)),
          separator \in {DefaultSeparator, ".", "_"} :
            records = [d |-> d, separator |-> separator]
    /\ delta = DefaultDelta
    /\ Idle

FlattenDict ==
    /\ pc = "input"
    /\ result' = flatten(records.d, "", records.separator)
    /\ pc' = "flatten"
    /\ UNCHANGED <<user, records, delta, convs, excl, by_contact, rates, rrates, delays>>

NextFlatten == FlattenDict

SpecFlatten == InitFlatten /\ [][NextFlatten]_vars

ExampleDict ==
    [k \in {"alpha", "beta"} |->
        IF k = "alpha" THEN Leaf(1)
        ELSE Dict([j \in {"a", "b"} |-> IF j = "a" THEN Leaf(10) ELSE Leaf(42)])]

ExampleFlat(separator) ==
    [k \in {"alpha", "beta" \o separator \o "a", "beta" \o separator \o "b"} |->
        IF k = "alpha" THEN 1 ELSE IF k = "beta" \o separator \o "a" THEN 10 ELSE 42]

\* C22: flatten with its default arguments joins nested keys with '_', so
\* that the example {'alpha': 1, 'beta': {'a': 10, 'b': 42}} gives the keys
\* alpha, beta_a, beta_b; with separator '.' the keys are beta.a and beta.b;
\* the result holds no dictionary as a value.
C22_DefaultSeparator ==
    pc = "flatten" =>
        /\ records.separator = DefaultSeparator =>
                result = flatten(records.d, "", "_")
        /\ records.separator = DefaultSeparator /\ records.d = ExampleDict =>
                result = ExampleFlat("_")
        /\ records.separator = "." /\ records.d = ExampleDict =>
                result = ExampleFlat(".")
        /\ \A k \in DOMAIN result : result[k] \in {1, 10, 42}

\* ====================================================== filter_record and load
MaxInput == 3

\* The records a caller can load: three valid ones, two of them at the same
\* datetime, a text without datetime, a text with a wrong direction and no
\* correspondent, a call without duration, and a physical event
LoadPool ==
    {EventRecord("text", "A", 0, None, Position("s1", "")),
     EventRecord("text", "A", 0, None, Position("s2", "")),
     EventRecord("call", "A", 60, 2, Position("", "l2")),
     EventRecord("text", "A", None, None, Position("", "")),
     [EventRecord("text", NoId, 180, None, Position("", "")) EXCEPT !.direction = "sideways"],
     EventRecord("call", "A", 240, None, Position("", "")),
     EventRecord("physical", "B", 300, None, Position("", ""))}

\* the keys of scheme whose test the record fails, in src/io.py
FailedFields(r) ==
    {key \in {"interaction", "direction", "correspondent_id", "datetime", "duration"} :
        ~ CASE key = "interaction" ->
                    r.interaction \in {"call", "text", "physical", "location", ""}
            [] key = "direction" -> r.direction \in {"in", "out", ""}
            [] key = "correspondent_id" -> r.correspondent_id # NoId
            [] key = "datetime" -> r.datetime # None
            [] key = "duration" -> r.interaction = "call" => r.duration # None}

\* the same in bandicoot_dev/io.py, where the field is named call_duration
FailedFieldsDev(r) ==
    {key \in {"interaction", "direction", "correspondent_id", "datetime", "duration"} :
        ~ CASE key = "interaction" -> r.interaction \in {"call", "text"}
            [] key = "direction" -> r.direction \in {"in", "out"}
            [] key = "correspondent_id" -> r.correspondent_id # NoId
            [] key = "datetime" -> r.datetime # None
            [] key = "duration" -> r.interaction = "call" => r.duration # None}

\* bad_records.append(r), once for every failed test
RECURSIVE BadRecords(_, _)
BadRecords(recs, dev) ==
    IF recs = <<>> THEN <<>>
    ELSE LET r == Head(recs)
             failed == IF dev THEN FailedFieldsDev(r) ELSE FailedFields(r)
         IN [j \in 1..Cardinality(failed) |-> r] \o BadRecords(Tail(recs), dev)

\* _filter: the records it yields, the counters and the bad records
Filtered(recs, dev) ==
    LET Failed(r) == IF dev THEN FailedFieldsDev(r) ELSE FailedFields(r)
        Valid(r) == Failed(r) = {}
        Failing(key) == Cardinality({i \in 1..Len(recs) : key \in Failed(recs[i])})
    IN [records |-> SelectSeq(recs, Valid),
        ignored |->
            [all |-> Cardinality({i \in 1..Len(recs) : Failed(recs[i]) # {}}),
             interaction |-> Failing("interaction"),
             direction |-> Failing("direction"),
             correspondent_id |-> Failing("correspondent_id"),
             datetime |-> Failing("datetime"),
             duration |-> Failing("duration")],
        bad_records |-> BadRecords(recs, dev)]

\* set(records): a record joins the set unless a member has its hash and
\* equals it
RECURSIVE SetOf(_)
SetOf(recs) ==
    IF recs = <<>> THEN <<>>
    ELSE LET front == SetOf(SubSeq(recs, 1, Len(recs) - 1))
             r == recs[Len(recs)]
         IN IF \E i \in 1..Len(front) :
                    RecordHash(front[i]) = RecordHash(r) /\ RecordEq(front[i], r)
            THEN front
            ELSE Append(front, r)

\* sorted(set(records), key=lambda r: r.datetime), as the set of the lists
\* it can return: the members of the set by datetime, those of equal
\* datetime in the iteration order of the set, which can be any
sort_records(recs) ==
    LET members == SetOf(recs)
        n == Len(members)
    IN { [i \in 1..n |-> members[p[i]]] :
            p \in { q \in [1..n -> 1..n] :
                        /\ \A i, j \in 1..n : i # j => q[i] # q[j]
                        /\ \A i \in 1..(n - 1) :
                                members[q[i]].datetime <= members[q[i + 1]].datetime } }

\* filter_record of bandicoot_dev/io.py
filter_record_dev(recs) == Filtered(recs, TRUE)

\* filter_record of src/io.py, as the set of what it can return
filter_record(recs) ==
    LET filtered == Filtered(recs, FALSE)
    IN { [filtered EXCEPT !.records = valid] : valid \in sort_records(filtered.records) }

InitLoad ==
    /\ \E n \in 0..MaxInput : records \in [1..n -> LoadPool]
    /\ delta = DefaultDelta
    /\ Idle

FilterRecord ==
    /\ pc = "input"
    /\ \E returned \in filter_record(records) : result' = returned
    /\ pc' = "filter_record"
    /\ UNCHANGED <<user, records, delta, convs, excl, by_contact, rates, rrates, delays>>

FilterRecordDev ==
    /\ pc = "input"
    /\ result' = filter_record_dev(records)
    /\ pc' = "filter_record_dev"
    /\ UNCHANGED <<user, records, delta, convs, excl, by_contact, rates, rrates, delays>>

\* a true value of the flag warnings
Truthy(warnings) == warnings = "True"

\* load of bandicoot_dev/io.py: the user and what it returns with it. The
\* setter of antennas writes the locations of the stored records, which are
\* the valid records of the input; percent_records_missing_location and
\* antennas_missing_locations only feed the warnings that are printed.
LoadDev ==
    /\ pc = "input"
    /\ \E warnings \in {"True", "False", "None"}, given \in BOOLEAN, antennas \in PlaceDicts :
        /\ given \/ antennas = <<>>
        /\ LET filtered == filter_record_dev(records)
               stored == RecordsSetter(NewUserDev, filtered.records)
               loaded == IF given THEN AntennasSetter(stored, antennas) ELSE stored
               Valid(r) == FailedFieldsDev(r) = {}
           IN /\ \E sorted_min_records \in sort_records(loaded.records) :
                    LET num_dup == Len(loaded.records) - Len(sorted_min_records)
                    IN user' = IF num_dup > 0 /\ Truthy(warnings)
                               THEN RecordsSetter(loaded, sorted_min_records)
                               ELSE loaded
              /\ records' = [i \in 1..Len(records) |->
                                IF given /\ Valid(records[i])
                                THEN Located(records[i], antennas)
                                ELSE records[i]]
              /\ result' = [warnings |-> warnings, ignored_records |-> filtered.ignored,
                            bad_records |-> filtered.bad_records]
    /\ pc' = "load_dev"
    /\ UNCHANGED <<delta, convs, excl, by_contact, rates, rrates, delays>>

\* load of src/io.py with records only: User of src/core.py has no records
\* setter, the filtered list becomes the attribute records
Load ==
    /\ pc = "input"
    /\ \E warnings \in {"True", "False", "None"}, filtered \in filter_record(records) :
        /\ user' = [f \in DOMAIN NewUser \cup {"records"} |->
                        IF f = "records" THEN filtered.records ELSE NewUser[f]]
        /\ result' = [warnings |-> warnings, ignored_records |-> filtered.ignored,
                      bad_records |-> filtered.bad_records]
    /\ pc' = "load"
    /\ UNCHANGED <<records, delta, convs, excl, by_contact, rates, rrates, delays>>

NextLoad == FilterRecord \/ FilterRecordDev \/ LoadDev \/ Load

SpecLoad == InitLoad /\ [][NextLoad]_vars


\* C23: filter_record partitions its input: a record is returned as valid or
\* rejected, a rejected record counts once in ignored['all'] and is once in
\* bad_records, so that len(valid) + ignored['all'] = len(input) and
\* len(bad_records) = ignored['all'].
C23_FilterPartitions ==
    pc \in {"filter_record", "filter_record_dev"} =>
        /\ Len(result.records) + result.ignored.all = Len(records)
        /\ Len(result.bad_records) = result.ignored.all
        /\ \A i \in 1..Len(records) :
                Count(result.records, records[i]) + Count(result.bad_records, records[i])
                    = Count(records, records[i])

\* C24: after load, user.records holds no two equal records, whatever the
\* flag warnings is.
C24_NoDuplicateAfterLoad ==
    pc \in {"load", "load_dev"} =>
        \A i, j \in 1..Len(user.records) :
            i # j => ~RecordEq(user.records[i], user.records[j])

\* ------------------------------------------------------ number_of_contacts
MaxContactRecs == 3

ContactKinds ==
    TextKinds \cup { [interaction |-> "call", direction |-> d, duration |-> n] :
                        d \in {"in", "out"}, n \in {2, 10} }

\* hasattr(r, 'duration') holds of every Record; None > 5 is False
LongEnough(r) == r.duration # None /\ r.duration > 5

Correspondents(recs) == { recs[i].correspondent_id : i \in 1..Len(recs) }

\* Counter(r.correspondent_id for r in records if ...)[c]
CounterOf(recs, c) ==
    LET Counted(r) == r.correspondent_id = c /\ LongEnough(r)
    IN Len(SelectSeq(recs, Counted))

\* records[0] of an empty list raises; the parameter direction is not read
number_of_contacts(recs, direction, more) ==
    IF recs = <<>> THEN Raised
    ELSE Frac(Cardinality({ c \in Correspondents(recs) : CounterOf(recs, c) > more }), 1)

InitContacts ==
    /\ IsInput(records, MaxContactRecs, ContactKinds, {"A", "B"}, {60})
    /\ delta = DefaultDelta
    /\ Idle

\* @grouping(interaction=[["call", "text"], "stop"])
NumberOfContacts ==
    /\ pc = "input"
    /\ \E direction \in {"None", "in", "out"}, more \in {0, 1} :
            result' = [direction |-> direction, more |-> more,
                       value |-> number_of_contacts(records, direction, more)]
    /\ pc' = "number_of_contacts"
    /\ UNCHANGED <<user, records, delta, convs, excl, by_contact, rates, rrates, delays>>

NextContacts == NumberOfContacts

SpecContacts == InitContacts /\ [][NextContacts]_vars

\* C25: number_of_contacts filters the records by its parameter direction:
\* with 'in' (resp. 'out') only the incoming (resp. outgoing) records count
\* towards a contact, and with None all of them do.
C25_DirectionFilters ==
    (pc = "number_of_contacts" /\ records # <<>>) =>
        LET Wanted(r) == result.direction = "None" \/ r.direction = result.direction
            wanted == SelectSeq(records, Wanted)
        IN result.value
             = Frac(Cardinality({ c \in Correspondents(records) :
                                    CounterOf(wanted, c) > result.more }), 1)

\* -------------------------------------- _conversations: order and maximality
\* C26: _conversations neither drops, duplicates nor reorders a record: the
\* emitted conversations, concatenated in emission order, are the input
\* sequence, and the input list is left as it was.
C26_ConcatenationIsInput ==
    [][(pc = "input" /\ pc' = "_conversations") =>
            /\ records' = records
            /\ Flatten(convs') = records]_vars

C26_Witness ==
    /\ Segmented
    /\ Len(records) = MaxLen
    /\ Len(convs) = 2
    /\ Len(convs[1]) = 2
    /\ AnsweredCall(convs[1][2])
    /\ Flatten(convs) = records

\* C27: the emitted conversations are maximal: of two conversations emitted
\* one after the other, the earlier one ends with a call of duration > 1, or
\* the later one starts at least the timeout after the earlier one ends.
C27_ConversationsAreMaximal ==
    Segmented =>
        \A c \in 1..(Len(convs) - 1) :
            LET last == convs[c][Len(convs[c])]
                first == convs[c + 1][1]
            IN AnsweredCall(last) \/ first.datetime - last.datetime >= delta

C27_Witness ==
    /\ Segmented
    /\ delta = Hour
    /\ Len(convs) = 3
    /\ AnsweredCall(convs[1][1])
    /\ convs[2][1].datetime - convs[1][1].datetime = 0
    /\ ~AnsweredCall(convs[2][1])
    /\ convs[3][1].datetime - convs[2][1].datetime = Hour

\* ---------------------------------------------------------- _read_network
MaxNet == 2     \* longest record list of a user of the network

Ego == "U"
Others == {"A", "B"}
NetTimes == <<0, 40>>

\* the records a user can hold, by time: texts to or from the two other users
NetPool(name) ==
    LET whos == IF name = "A" THEN <<"B", Ego>>
                ELSE IF name = "B" THEN <<"A", Ego>>
                ELSE <<"A", "B">>
        dirs == <<"in", "out">>
    IN [k \in 1..8 |->
            [interaction |-> "text", direction |-> dirs[((k - 1) % 2) + 1],
             correspondent_id |-> whos[(((k - 1) \div 2) % 2) + 1],
             datetime |-> NetTimes[((k - 1) \div 4) + 1],
             duration |-> None, position |-> "None"]]

\* the loaded lists: sorted by time, no record twice
NetLists(name) ==
    LET pool == NetPool(name)
        picks == UNION { [1..n -> 1..Len(pool)] : n \in 0..MaxNet }
    IN { [i \in 1..Len(p) |-> pool[p[i]]] :
            p \in { q \in picks : \A i \in 1..(Len(q) - 1) : q[i] < q[i + 1] } }

\* abs(x)
Abs(x) == IF x < 0 THEN 0 - x ELSE x

MatchWindow == 30

\* Record.matches
matches(self, other) ==
    /\ self.interaction = other.interaction
    /\ self.direction # other.direction
    /\ self.duration = other.duration
    /\ Abs(self.datetime - other.datetime) < MatchWindow

\* Record.has_match
has_match(self, iterable) == \E i \in 1..Len(iterable) : matches(self, iterable[i])

\* the keys of connections: the correspondents of the user's records
ConnectionKeys(input) == Correspondents(input.user)

\* the keys of connections whose file exists
Loaded(input) == { c \in ConnectionKeys(input) : input.files[c].exists }

\* _is_consistent; lists[n] is the present value of the records of n
IsConsistent(record, lists, input) ==
    IF record.correspondent_id = Ego
    THEN has_match(record, lists[Ego])
    ELSE IF record.correspondent_id \in ConnectionKeys(input)
         THEN IF record.correspondent_id \notin Loaded(input) THEN TRUE
              ELSE has_match(record, lists[record.correspondent_id])
         ELSE TRUE

\* for u in all_user_iter(): u.records = filter(_is_consistent, u.records)
RECURSIVE FilterUsers(_, _, _)
FilterUsers(lists, order, input) ==
    IF order = <<>> THEN lists
    ELSE LET u == Head(order)
             Kept(record) == IsConsistent(record, lists, input)
         IN FilterUsers([lists EXCEPT ![u] = SelectSeq(lists[u], Kept)],
                        Tail(order), input)

\* the orders of connections.values(), after the user
UserOrders(input) ==
    LET loaded == Loaded(input)
        n == Cardinality(loaded)
    IN { <<Ego>> \o p : p \in { q \in [1..n -> loaded] :
                                    \A i, j \in 1..n : i # j => q[i] # q[j] } }

_read_network(input, order) ==
    FilterUsers([n \in {Ego} \cup Others |->
                    IF n = Ego THEN input.user ELSE input.files[n].records],
                order, input)

InitNetwork ==
    /\ \E own \in NetLists(Ego), a \in NetLists("A"), b \in NetLists("B"),
          ea \in BOOLEAN, eb \in BOOLEAN :
            /\ ea \/ a = <<>>
            /\ eb \/ b = <<>>
            /\ records = [user |-> own,
                          files |-> [c \in Others |->
                                        IF c = "A" THEN [exists |-> ea, records |-> a]
                                        ELSE [exists |-> eb, records |-> b]]]
    /\ delta = DefaultDelta
    /\ Idle

ReadNetwork ==
    /\ pc = "input"
    /\ \E order \in UserOrders(records) :
            result' = [order |-> order, lists |-> _read_network(records, order)]
    /\ pc' = "_read_network"
    /\ UNCHANGED <<user, records, delta, convs, excl, by_contact, rates, rrates, delays>>

NextNetwork == ReadNetwork

SpecNetwork == InitNetwork /\ [][NextNetwork]_vars

\* C28: after _read_network has filtered the user and the loaded
\* correspondents, a remaining record whose correspondent was loaded has a
\* matching record among the records that remain in the list of that
\* correspondent, whatever the order in which the users were filtered.
C28_RemainingAreReciprocated ==
    pc = "_read_network" =>
        LET users == {Ego} \cup Loaded(records) IN
        \A u \in users : \A i \in 1..Len(result.lists[u]) :
            LET record == result.lists[u][i] IN
            record.correspondent_id \in users =>
                has_match(record, result.lists[record.correspondent_id])

\* ------------------------------- first_seen_response_rate: texts out of session
\* the state of the loop after the first i records
FirstSeenAfter(recs, i) == FirstSeenLoop(SubSeq(recs, 1, i), FirstSeenStart)

\* C29: in first_seen_response_rate an outgoing text that no screen session
\* contains (sent before the first session, or once the most recent session
\* has ended) is disregarded: it adds no observation to responses, and the
\* pending entry of its correspondent is cleared.
C29_TextOutOfSessionDisregarded ==
    pc = "first_seen_response_rate" =>
        \A i \in 1..Len(records) :
            LET r == records[i]
                before == FirstSeenAfter(records, i - 1)
                after == FirstSeenAfter(records, i)
            IN (/\ r.interaction = "text"
                /\ r.direction = "out"
                /\ (before.session_id = 0 - 1 \/ r.datetime >= before.endtime))
               => /\ after.responses = before.responses
                  /\ ~HasKey(after.pending, r.correspondent_id)

\* ---------------------------------------------------------------- duration
MaxChain == 26      \* longest chain of records of one correspondent
MaxAside == 2       \* most records of a second correspondent

DurationGaps == {0, 60, Hour - 1, Hour}

DurationKinds ==
    { [interaction |-> "text", direction |-> "in", duration |-> None],
      [interaction |-> "physical", direction |-> "in", duration |-> None],
      [interaction |-> "call", direction |-> "in", duration |-> 2] }

\* n records of A then k records of B, all of one kind, each gap after the last
ChainList(n, k, kind, gap) ==
    RecordList(n + k, [i \in 1..(n + k) |-> kind],
               [i \in 1..(n + k) |-> IF i <= n THEN "A" ELSE "B"],
               [i \in 2..(n + k) |-> gap])

\* timedelta.seconds: the seconds left once the whole days are taken out
Seconds(td) == td % Day

\* np.mean of a list of floats
RECURSIVE FracSum(_)
FracSum(fs) ==
    IF fs = <<>> THEN <<0, 1>>
    ELSE QAdd(<<Head(fs).num, Head(fs).den>>, FracSum(Tail(fs)))

MeanOfFracs(fs) ==
    IF fs = <<>> THEN NaN
    ELSE LET total == FracSum(fs) IN Frac(total[1], total[2] * Len(fs))

_conversation_mean_duration(group) ==
    LET conversations == Conversations(group, DefaultDelta)
    IN Mean([c \in 1..Len(conversations) |->
                Seconds(conversations[c][Len(conversations[c])].datetime
                            - conversations[c][1].datetime)])

DurationStyle(interaction) ==
    IF interaction \in {"text", "physical"} THEN "conversation" ELSE "asis"

\* records[0] of an empty list raises; the parameter direction is not read
duration(recs, direction) ==
    IF recs = <<>> THEN Raised
    ELSE IF DurationStyle(recs[1].interaction) = "conversation"
         THEN LET interactions == Interactions(recs)
              IN MeanOfFracs([p \in 1..Len(interactions) |->
                                _conversation_mean_duration(interactions[p])])
         ELSE Mean([i \in 1..Len(recs) |-> recs[i].duration])

InitDuration ==
    /\ \E n \in 0..MaxChain, k \in 0..MaxAside, kind \in DurationKinds,
          gap \in DurationGaps :
            records = ChainList(n, k, kind, gap)
    /\ delta = DefaultDelta
    /\ Idle

\* @grouping(interaction=['call', 'text', 'physical', 'screen', 'stop'])
Duration ==
    /\ pc = "input"
    /\ \E direction \in {"None", "in", "out"} :
            result' = duration(records, direction)
    /\ pc' = "duration"
    /\ UNCHANGED <<user, records, delta, convs, excl, by_contact, rates, rrates, delays>>

NextDuration == Duration

SpecDuration == InitDuration /\ [][NextDuration]_vars

\* C30: for text and physical records, duration measures a conversation as
\* the seconds elapsed between its first and its last record, also when the
\* conversation spans more than 24 hours through records each less than an
\* hour after the one before.
C30_ElapsedSeconds ==
    (/\ pc = "duration"
     /\ records # <<>>
     /\ records[1].interaction \in {"text", "physical"}) =>
        LET interactions == Interactions(records)
            SpanOf(conv) == conv[Len(conv)].datetime - conv[1].datetime
            MeanElapsed(group) ==
                LET conversations == Conversations(group, DefaultDelta)
                IN Mean([c \in 1..Len(conversations) |-> SpanOf(conversations[c])])
        IN result = MeanOfFracs([p \in 1..Len(interactions) |->
                                    MeanElapsed(interactions[p])])

====
